---- MODULE Spec2Model ----
(***************************************************************************)
(* A model of gdrive_mcp_server.py: the three tool endpoints list_files,   *)
(* search_files and summarize_pdf, the credential handling of              *)
(* connect_to_drive that each of them starts with, and the token file the  *)
(* invocations share.                                                      *)
(*                                                                         *)
(* A Python string is modelled as a sequence of pieces: a piece is a       *)
(* stretch of ordinary characters or one single special character (tab,    *)
(* newline, apostrophe, backslash, blank), and concatenation is \o.        *)
(***************************************************************************)
EXTENDS Integers, Sequences, FiniteSets, TLC

VARIABLES
    tokenFile,      \* ./token.json: [exists, data], data a sequence of bytes
    lastWriter,     \* the invocation whose write to the token file came last (0: none)
    driveFiles,     \* the files the remote Drive account holds, in listing order
    pc,             \* each invocation's position in its endpoint
    endpoint,       \* the endpoint each invocation runs
    arg,            \* its arguments [max_results, query, file_id]
    creds,          \* connect_to_drive's local creds
    service,        \* connect_to_drive's return value: "unset", "client" or "None"
    loaded,         \* what line 31-32 found: "unread", "absent" or "stored"
    loadedInfo,     \* the stored credential as the file held it when it was read
    refreshCalls,   \* calls of creds.refresh
    refreshFailed,  \* whether such a call raised
    consentCalls,   \* runs of the consent flow, completed or not
    wrote,          \* the bytes the invocation wrote to the token file (<<>>: none)
    overlapped,     \* another invocation wrote between this one's open and its write
    sentFilter,     \* the q parameter search_files sent
    listed,         \* [ok, items]: whether files().list answered, and with what
    metaMime,       \* the MIME type the metadata request of summarize_pdf returned
    chunkCalls,     \* calls of downloader.next_chunk
    extracted,      \* [ok, text]: whether extract_text returned, and what
    extractCalls,   \* calls of extract_text
    geminiCalls,    \* calls of summarize_with_gemini
    outcome         \* how the invocation ended: [kind, val]

vars == <<tokenFile, lastWriter, driveFiles, pc, endpoint, arg, creds, service,
          loaded, loadedInfo, refreshCalls, refreshFailed, consentCalls, wrote,
          overlapped, sentFilter, listed, metaMime, chunkCalls, extracted,
          extractCalls, geminiCalls, outcome>>

authVars == <<creds, service, loaded, loadedInfo, refreshCalls, refreshFailed,
              consentCalls, wrote, overlapped>>
bodyVars == <<sentFilter, listed, metaMime, chunkCalls, extracted, extractCalls,
              geminiCalls>>

(***************************************************************************)
(* Bounds of the model.                                                    *)
(***************************************************************************)
NProc == 2          \* concurrent tool invocations
MaxTokLen == 2      \* length of the longest access token, in bytes
MaxFiles == 3       \* files in the simulated Drive account
MaxN == 3           \* largest max_results
MaxQueryLen == 3    \* longest query, in characters
MaxTextLen == 2     \* longest extracted text, in characters
MaxChunks == 2      \* most chunks of one download

Procs == 1..NProc

\* An access token is short or long: what matters to the token file is
\* whether one serialized credential is longer than another.
TokLens == {1, MaxTokLen}

Min(a, b) == IF a <= b THEN a ELSE b


(***************************************************************************)
(* Credentials and the token file.                                         *)
(***************************************************************************)
SCOPES == {"https://www.googleapis.com/auth/drive.readonly"}
OtherScopes == {"https://www.googleapis.com/auth/drive.metadata.readonly"}

\* "creds = None"
NONE == [tok |-> 0, len |-> 0, expired |-> FALSE, rt |-> FALSE, scopes |-> {}]

StoredTok == 1
RefreshedTok(p) == 2 * p
ConsentTok(p) == 2 * p + 1

\* creds.to_json(): the access token (c.len bytes), the refresh token, the
\* expiry and the scopes, between braces.
LBrace == <<"{">>
RBrace == <<"}">>
ToJson(c) ==
    <<LBrace>> \o [i \in 1..c.len |-> <<"token", c.tok, i>>]
               \o << <<"refresh_token", c.rt>>, <<"expiry", c.expired>>,
                     <<"scopes", c.scopes>> >>
               \o <<RBrace>>

\* What json.load accepts: one object, nothing after its closing brace.
WellFormed(d) ==
    /\ Len(d) >= 2
    /\ d[1] = LBrace
    /\ d[Len(d)] = RBrace
    /\ \A i \in 2..(Len(d) - 1) : d[i][1] \notin {"{", "}", "garbage"}

FieldOf(d, key) == d[CHOOSE i \in 1..Len(d) : d[i][1] = key][2]
TokenBytes(d) == {i \in 1..Len(d) : d[i][1] = "token"}

\* The scopes the file itself records.
StoredScopes(d) == FieldOf(d, "scopes")

\* Credentials.from_authorized_user_file(TOKEN_FILE, scopes): the scopes
\* argument, when given, replaces the scopes the file records.
FromAuthorizedUserFile(d, scopes) ==
    [tok     |-> IF TokenBytes(d) = {} THEN 0
                 ELSE d[CHOOSE i \in TokenBytes(d) : TRUE][2],
     len     |-> Cardinality(TokenBytes(d)),
     expired |-> FieldOf(d, "expiry"),
     rt      |-> FieldOf(d, "refresh_token"),
     scopes  |-> scopes]

\* creds.valid: a token that has not expired.
Valid(c) == c.tok # 0 /\ ~c.expired

\* The test of line 33 with the second "not" lost.
NeedsAuthInverted(c) == c = NONE \/ Valid(c)

\* line 33: not creds or not creds.valid
NeedsAuth(c) == c = NONE \/ ~Valid(c)

\* The test of line 34 asking for a missing refresh token.
CanRefreshInverted(c) == c # NONE /\ c.expired /\ ~c.rt

\* line 34: creds and creds.expired and creds.refresh_token
CanRefresh(c) == c # NONE /\ c.expired /\ c.rt

\* The file opened in append mode: the bytes go to its end.
WriteAtEnd(old, b) == old \o b

\* A write of bytes b at offset 0 of a file holding old: what lies beyond
\* the written bytes stays.
WriteAtStart(old, b) == b \o SubSeq(old, Len(b) + 1, Len(old))

\* The credentials an earlier run may have stored, recording one of the
\* scope sets given.
StoredCreds(scopeSets) ==
    [tok : {StoredTok}, len : TokLens, expired : BOOLEAN, rt : BOOLEAN,
     scopes : scopeSets]

\* The token file as an invocation may find it: absent, not JSON, or a
\* stored credential.
InitTokenFiles(scopeSets) ==
    {[exists |-> FALSE, data |-> <<>>],
     [exists |-> TRUE, data |-> << <<"garbage">> >>]}
    \cup {[exists |-> TRUE, data |-> ToJson(c)] : c \in StoredCreds(scopeSets)}

(***************************************************************************)
(* How an invocation ends.                                                 *)
(***************************************************************************)
Return(p, s) ==
    /\ outcome' = [outcome EXCEPT ![p] = [kind |-> "return", val |-> s]]
    /\ pc' = [pc EXCEPT ![p] = "done"]

Raise(p, e) ==
    /\ outcome' = [outcome EXCEPT ![p] = [kind |-> "raise", val |-> <<e>>]]
    /\ pc' = [pc EXCEPT ![p] = "done"]

Goto(p, l) ==
    /\ pc' = [pc EXCEPT ![p] = l]
    /\ UNCHANGED outcome

(***************************************************************************)
(* connect_to_drive, lines 29-46.                                          *)
(***************************************************************************)
\* lines 30-34: read the token file and choose the branch.
LoadToken(p) ==
    /\ pc[p] = "load"
    /\ UNCHANGED <<tokenFile, lastWriter, driveFiles, endpoint, arg, service,
                   refreshCalls, refreshFailed, consentCalls, wrote, overlapped>>
    /\ UNCHANGED bodyVars
    /\ IF ~tokenFile.exists
       THEN /\ creds' = [creds EXCEPT ![p] = NONE]
            /\ loaded' = [loaded EXCEPT ![p] = "absent"]
            /\ UNCHANGED loadedInfo
            /\ Goto(p, "consent")
       ELSE IF ~WellFormed(tokenFile.data)
       THEN /\ loaded' = [loaded EXCEPT ![p] = "unparsable"]
            /\ UNCHANGED <<creds, loadedInfo>>
            /\ Raise(p, "ValueError")
       ELSE LET c == FromAuthorizedUserFile(tokenFile.data, SCOPES) IN
            /\ creds' = [creds EXCEPT ![p] = c]
            /\ loaded' = [loaded EXCEPT ![p] = "stored"]
            /\ loadedInfo' = [loadedInfo EXCEPT ![p] =
                    [c EXCEPT !.scopes = StoredScopes(tokenFile.data)]]
            /\ IF ~NeedsAuth(c) THEN Goto(p, "build")
               ELSE IF CanRefresh(c) THEN Goto(p, "refresh")
               ELSE Goto(p, "consent")

\* line 35: creds.refresh(Request()); it raises RefreshError when the grant
\* is revoked.
Refresh(p) ==
    /\ pc[p] = "refresh"
    /\ refreshCalls' = [refreshCalls EXCEPT ![p] = @ + 1]
    /\ UNCHANGED <<tokenFile, lastWriter, driveFiles, endpoint, arg, service,
                   loaded, loadedInfo, consentCalls, wrote, overlapped>>
    /\ UNCHANGED bodyVars
    /\ \/ \E n \in TokLens :
            /\ creds' = [creds EXCEPT ![p] =
                    [@ EXCEPT !.tok = RefreshedTok(p), !.len = n, !.expired = FALSE]]
            /\ UNCHANGED refreshFailed
            /\ Goto(p, "open")
       \/ /\ refreshFailed' = [refreshFailed EXCEPT ![p] = TRUE]
          /\ UNCHANGED creds
          /\ Raise(p, "RefreshError")

\* lines 37-38: the consent flow; it raises when credentials.json is missing
\* or the user does not complete the consent.
Consent(p) ==
    /\ pc[p] = "consent"
    /\ UNCHANGED <<tokenFile, lastWriter, driveFiles, endpoint, arg, service,
                   loaded, loadedInfo, refreshCalls, refreshFailed, wrote, overlapped>>
    /\ UNCHANGED bodyVars
    /\ consentCalls' = [consentCalls EXCEPT ![p] = @ + 1]
    /\ \/ \E n \in TokLens :
            /\ creds' = [creds EXCEPT ![p] =
                    [tok |-> ConsentTok(p), len |-> n, expired |-> FALSE,
                     rt |-> TRUE, scopes |-> SCOPES]]
            /\ Goto(p, "open")
       \/ /\ UNCHANGED creds
          /\ Raise(p, "FlowError")

\* line 39: open(TOKEN_FILE, 'w') creates or truncates the file.
OpenToken(p) ==
    /\ pc[p] = "open"
    /\ tokenFile' = [exists |-> TRUE, data |-> <<>>]
    /\ overlapped' = [overlapped EXCEPT ![p] = FALSE]
    /\ UNCHANGED <<lastWriter, driveFiles, endpoint, arg, creds, service, loaded,
                   loadedInfo, refreshCalls, refreshFailed, consentCalls, wrote>>
    /\ UNCHANGED bodyVars
    /\ Goto(p, "write")

\* line 40: token.write(creds.to_json()), flushed as the with block closes
\* the file; the file object's offset is 0.
WriteToken(p) ==
    /\ pc[p] = "write"
    /\ tokenFile' = [tokenFile EXCEPT !.data = WriteAtStart(@, ToJson(creds[p]))]
    /\ lastWriter' = p
    /\ wrote' = [wrote EXCEPT ![p] = ToJson(creds[p])]
    /\ overlapped' = [q \in Procs |->
                        IF q # p /\ pc[q] = "write" THEN TRUE ELSE overlapped[q]]
    /\ UNCHANGED <<driveFiles, endpoint, arg, creds, service, loaded, loadedInfo,
                   refreshCalls, refreshFailed, consentCalls>>
    /\ UNCHANGED bodyVars
    /\ Goto(p, "build")

\* lines 41-46: build the client; an HttpError gives None, any other error
\* leaves connect_to_drive.
BuildOutcomes == {"ok", "HttpError", "UnknownApiNameOrVersion"}
Build(p) ==
    /\ pc[p] = "build"
    /\ UNCHANGED <<tokenFile, lastWriter, driveFiles, endpoint, arg, creds, loaded,
                   loadedInfo, refreshCalls, refreshFailed, consentCalls, wrote,
                   overlapped>>
    /\ UNCHANGED bodyVars
    /\ \E r \in BuildOutcomes :
         CASE r = "ok" ->
                /\ service' = [service EXCEPT ![p] = "client"]
                /\ Goto(p, "body")
           [] r = "HttpError" ->
                /\ service' = [service EXCEPT ![p] = "None"]
                /\ Goto(p, "body")
           [] OTHER ->
                /\ UNCHANGED service
                /\ Raise(p, r)


(***************************************************************************)
(* The remote Drive account and the strings the endpoints build.           *)
(***************************************************************************)
FOLDER_MIME == "application/vnd.google-apps.folder"
PDF_MIME == "application/pdf"
TEXT_MIME == "text/plain"
MimeTypes == {FOLDER_MIME, PDF_MIME, TEXT_MIME}

TAB == "\t"
NL == "\n"
APOS == "'"
BSLASH == "\\"
BLANK == " "

FileRecord(i, m) ==
    [id |-> "id" \o ToString(i), name |-> "name" \o ToString(i), mimeType |-> m]

\* files().list(pageSize = n).execute(): the first page of the files given.
DriveListPage(files, n) == SubSeq(files, 1, Min(n, Len(files)))

\* The files of fs at the positions in S, in order.
RECURSIVE SelectFiles(_, _, _)
SelectFiles(fs, S, i) ==
    IF i > Len(fs) THEN <<>>
    ELSE (IF i \in S THEN <<fs[i]>> ELSE <<>>) \o SelectFiles(fs, S, i + 1)

RemoteOutcomes == {"ok", "HttpError", "TransportError"}

\* The classification with its two labels swapped.
ItemTypeSwapped(item) == IF item.mimeType = FOLDER_MIME THEN "File" ELSE "Folder"

\* lines 111 and 186
ItemType(item) == IF item.mimeType = FOLDER_MIME THEN "Folder" ELSE "File"

\* lines 110-112
RECURSIVE ListRows(_)
ListRows(items) ==
    IF items = <<>> THEN <<>>
    ELSE <<Head(items).id, TAB, Head(items).name, TAB, ItemType(Head(items)), NL>>
         \o ListRows(Tail(items))

\* lines 106-113
ListOutput(items) ==
    IF items = <<>> THEN <<"No files found.">>
    ELSE <<"ID", TAB, "Name", TAB, "Type", NL>> \o ListRows(items)

\* line 165: query.replace("'", "\\'")
RECURSIVE EscapeQuery(_)
EscapeQuery(q) ==
    IF q = <<>> THEN <<>>
    ELSE (IF Head(q) = APOS THEN <<BSLASH, APOS>> ELSE <<Head(q)>>)
         \o EscapeQuery(Tail(q))

\* line 168
SearchQuery(q) ==
    <<"(name contains ", APOS>> \o EscapeQuery(q)
        \o <<APOS, " or fullText contains ", APOS>> \o EscapeQuery(q)
        \o <<APOS, ") and trashed = false">>

\* lines 185-187
RECURSIVE SearchRows(_)
SearchRows(items) ==
    IF items = <<>> THEN <<>>
    ELSE <<"- Name: ", Head(items).name, ", ID: ", Head(items).id, ", Type: ",
           ItemType(Head(items)), NL>>
         \o SearchRows(Tail(items))

\* lines 179-188
SearchOutput(query, items) ==
    IF items = <<>>
    THEN <<"No files found matching your search for ", APOS>> \o query \o <<APOS, ".">>
    ELSE <<"Found ", ToString(Len(items)), " files matching your search:", NL>>
         \o SearchRows(items)

(***************************************************************************)
(* How Drive reads a filter: a quoted literal starts at an apostrophe and  *)
(* runs to the next apostrophe that no backslash escapes; inside it a      *)
(* backslash takes the next character literally.                           *)
(***************************************************************************)
\* The tokens of f from position i on; inLit: inside a literal whose
\* decoded content so far is acc.  A stretch outside a literal reads as
\* <<"raw", piece>>, a literal as <<"lit", content>>, and <<"bad">> marks a
\* filter that cannot be read.
RECURSIVE Lex(_, _, _, _)
Lex(f, i, inLit, acc) ==
    IF i > Len(f) THEN (IF inLit THEN << <<"bad">> >> ELSE <<>>)
    ELSE IF ~inLit
    THEN IF f[i] = APOS THEN Lex(f, i + 1, TRUE, <<>>)
         ELSE IF f[i] = BSLASH THEN << <<"bad">> >>
         ELSE << <<"raw", f[i]>> >> \o Lex(f, i + 1, FALSE, <<>>)
    ELSE IF f[i] = APOS THEN << <<"lit", acc>> >> \o Lex(f, i + 1, FALSE, <<>>)
         ELSE IF f[i] = BSLASH
         THEN IF i = Len(f) THEN << <<"bad">> >>
              ELSE Lex(f, i + 2, TRUE, Append(acc, f[i + 1]))
         ELSE Lex(f, i + 1, TRUE, Append(acc, f[i]))

\* The filter reads as  (name contains 'q' or fullText contains 'q') and
\* trashed = false  for the literal q.
FilterShape(f, q) ==
    Lex(f, 1, FALSE, <<>>) =
        << <<"raw", "(name contains ">>, <<"lit", q>>,
           <<"raw", " or fullText contains ">>, <<"lit", q>>,
           <<"raw", ") and trashed = false">> >>

\* Drive answers 400 to a filter it cannot read.
DriveAccepts(f) ==
    LET t == Lex(f, 1, FALSE, <<>>) IN
    /\ Len(t) = 5
    /\ t[1] = <<"raw", "(name contains ">>
    /\ t[2][1] = "lit"
    /\ t[3] = <<"raw", " or fullText contains ">>
    /\ t[4][1] = "lit"
    /\ t[5] = <<"raw", ") and trashed = false">>

(***************************************************************************)
(* Text extraction and summarization.                                      *)
(***************************************************************************)
Whitespace == {BLANK, NL, TAB}

\* str.strip(): leading and trailing whitespace removed.
RECURSIVE LStrip(_)
LStrip(t) == IF t # <<>> /\ Head(t) \in Whitespace THEN LStrip(Tail(t)) ELSE t
RECURSIVE RStrip(_)
RStrip(t) ==
    IF t # <<>> /\ t[Len(t)] \in Whitespace THEN RStrip(SubSeq(t, 1, Len(t) - 1)) ELSE t
Strip(t) == RStrip(LStrip(t))

\* The guard of line 223 without the strip.
NoTextUnstripped(t) == t = <<>>

\* line 223: not extracted_text.strip()
NoText(t) == Strip(t) = <<>>

\* The check of line 207 rejecting folders only.
IsPdfLoose(m) == m # FOLDER_MIME

\* line 207
IsPdf(m) == m = PDF_MIME

\* line 77: "".join(chunks)
RECURSIVE Join(_)
Join(chunks) == IF chunks = <<>> THEN <<>> ELSE <<Head(chunks)>> \o Join(Tail(chunks))

Summaries == {<<>>, <<"summary-1">>, <<"summary-1", "summary-2">>}


(***************************************************************************)
(* The inputs an invocation may be given.                                  *)
(***************************************************************************)
DefaultListMax == 50
DefaultSearchMax == 10

QueryChars == {"a", APOS, BSLASH}
TextChars == {"x", BLANK, NL}

RECURSIVE SeqsUpTo(_, _)
SeqsUpTo(S, n) ==
    IF n = 0 THEN {<<>>}
    ELSE LET shorter == SeqsUpTo(S, n - 1) IN
         shorter \cup {Append(t, c) : t \in {u \in shorter : Len(u) = n - 1}, c \in S}

\* The inputs of the runs of one endpoint at a time: every max_results, query
\* and extracted text within the bounds.
InputsOf(ep) ==
    [eps     |-> {ep},
     ns      |-> (0..MaxN) \cup {DefaultListMax, DefaultSearchMax},
     queries |-> SeqsUpTo(QueryChars, MaxQueryLen),
     texts   |-> SeqsUpTo(TextChars, MaxTextLen)]

\* The inputs of the concurrent runs: list_files with its default max_results.
ConcurrentInputs ==
    [eps     |-> {"list_files"},
     ns      |-> {DefaultListMax},
     queries |-> {<<>>},
     texts   |-> {<<>>}]

NoArg == [max_results |-> 0, query |-> <<>>, file_id |-> 0]

(***************************************************************************)
(* The endpoints.                                                          *)
(***************************************************************************)
Endpoints == {"list_files", "search_files", "summarize_pdf"}

\* The MCP server calls an endpoint with its arguments; the endpoint's first
\* statement is connect_to_drive() (lines 95, 159, 200).
Invoke(p, inp) ==
    /\ pc[p] = "idle"
    /\ \E ep \in inp.eps :
         /\ endpoint' = [endpoint EXCEPT ![p] = ep]
         /\ CASE ep = "list_files" ->
                   \E n \in inp.ns :
                     arg' = [arg EXCEPT ![p] = [NoArg EXCEPT !.max_results = n]]
              [] ep = "search_files" ->
                   \E n \in inp.ns, q \in inp.queries :
                     arg' = [arg EXCEPT ![p] =
                               [NoArg EXCEPT !.max_results = n, !.query = q]]
              [] OTHER ->
                   \E f \in 1..(Len(driveFiles) + 1) :
                     arg' = [arg EXCEPT ![p] = [NoArg EXCEPT !.file_id = f]]
    /\ UNCHANGED <<tokenFile, lastWriter, driveFiles>>
    /\ UNCHANGED authVars
    /\ UNCHANGED bodyVars
    /\ Goto(p, "load")

\* list_files, lines 96-116.
ListFiles(p) ==
    /\ pc[p] = "body"
    /\ endpoint[p] = "list_files"
    /\ UNCHANGED <<tokenFile, lastWriter, driveFiles, endpoint, arg>>
    /\ UNCHANGED authVars
    /\ UNCHANGED <<sentFilter, metaMime, chunkCalls, extracted, extractCalls,
                   geminiCalls>>
    /\ IF service[p] = "None"
       THEN /\ UNCHANGED listed
            /\ Return(p, <<"Authentication failed">>)
       ELSE \E r \in RemoteOutcomes :
              CASE r = "ok" ->
                     LET items == DriveListPage(driveFiles, arg[p].max_results) IN
                     /\ listed' = [listed EXCEPT ![p] = [ok |-> TRUE, items |-> items]]
                     /\ Return(p, ListOutput(items))
                [] r = "HttpError" ->
                     /\ UNCHANGED listed
                     /\ Return(p, <<"An error occurred: ", r>>)
                [] OTHER ->
                     /\ UNCHANGED listed
                     /\ Raise(p, r)

\* search_files, lines 160-191.
SearchFiles(p) ==
    /\ pc[p] = "body"
    /\ endpoint[p] = "search_files"
    /\ UNCHANGED <<tokenFile, lastWriter, driveFiles, endpoint, arg>>
    /\ UNCHANGED authVars
    /\ UNCHANGED <<metaMime, chunkCalls, extracted, extractCalls, geminiCalls>>
    /\ IF service[p] = "None"
       THEN /\ UNCHANGED <<listed, sentFilter>>
            /\ Return(p, <<"Error: Could not connect to Google Drive.">>)
       ELSE LET f == SearchQuery(arg[p].query) IN
            /\ sentFilter' = [sentFilter EXCEPT ![p] = f]
            /\ \E r \in RemoteOutcomes :
                 CASE r = "ok" ->
                        /\ DriveAccepts(f)
                        /\ \E S \in SUBSET (1..Len(driveFiles)) :
                             LET items == DriveListPage(SelectFiles(driveFiles, S, 1),
                                                        arg[p].max_results) IN
                             /\ listed' = [listed EXCEPT ![p] = [ok |-> TRUE, items |-> items]]
                             /\ Return(p, SearchOutput(arg[p].query, items))
                   [] r = "HttpError" ->
                        /\ UNCHANGED listed
                        /\ Return(p, <<"An error occurred during search: ", r>>)
                   [] OTHER ->
                        /\ UNCHANGED listed
                        /\ Raise(p, r)


\* summarize_pdf, lines 201-208: the connection check, the metadata request
\* and the MIME type check.
PdfMetadata(p) ==
    /\ pc[p] = "body"
    /\ endpoint[p] = "summarize_pdf"
    /\ UNCHANGED <<tokenFile, lastWriter, driveFiles, endpoint, arg>>
    /\ UNCHANGED authVars
    /\ UNCHANGED <<sentFilter, listed, chunkCalls, extracted, extractCalls,
                   geminiCalls>>
    /\ IF service[p] = "None"
       THEN /\ UNCHANGED metaMime
            /\ Return(p, <<"Error: Could not connect to Google Drive.">>)
       ELSE \E r \in RemoteOutcomes :
              CASE r = "ok" ->
                     /\ arg[p].file_id \in 1..Len(driveFiles)
                     /\ LET m == driveFiles[arg[p].file_id].mimeType IN
                        /\ metaMime' = [metaMime EXCEPT ![p] = m]
                        /\ IF ~IsPdf(m)
                           THEN Return(p, <<"Error: This tool only works with PDF files.">>)
                           ELSE Goto(p, "download")
                [] r = "HttpError" ->
                     /\ UNCHANGED metaMime
                     /\ Return(p, <<"An error occurred with the Google Drive API: ", r>>)
                [] OTHER ->
                     /\ UNCHANGED metaMime
                     /\ Return(p, <<"An unexpected error occurred: ", r>>)

\* lines 211-216: one turn of the download loop.
ChunkOutcomes == {"more", "done", "HttpError", "TransportError"}
NextChunk(p) ==
    /\ pc[p] = "download"
    /\ chunkCalls' = [chunkCalls EXCEPT ![p] = @ + 1]
    /\ UNCHANGED <<tokenFile, lastWriter, driveFiles, endpoint, arg>>
    /\ UNCHANGED authVars
    /\ UNCHANGED <<sentFilter, listed, metaMime, extracted, extractCalls, geminiCalls>>
    /\ \E r \in ChunkOutcomes :
         CASE r = "more" ->
                /\ chunkCalls[p] + 1 < MaxChunks
                /\ Goto(p, "download")
           [] r = "done" -> Goto(p, "extract")
           [] r = "HttpError" ->
                Return(p, <<"An error occurred with the Google Drive API: ", r>>)
           [] OTHER -> Return(p, <<"An unexpected error occurred: ", r>>)

\* lines 218-224: extract the text and guard against an empty extraction.
ExtractText(p, inp) ==
    /\ pc[p] = "extract"
    /\ extractCalls' = [extractCalls EXCEPT ![p] = @ + 1]
    /\ UNCHANGED <<tokenFile, lastWriter, driveFiles, endpoint, arg>>
    /\ UNCHANGED authVars
    /\ UNCHANGED <<sentFilter, listed, metaMime, chunkCalls, geminiCalls>>
    /\ \/ \E t \in inp.texts :
            /\ extracted' = [extracted EXCEPT ![p] = [ok |-> TRUE, text |-> t]]
            /\ IF NoText(t)
               THEN Return(p, <<"Could not extract any text from the PDF. It might be an image-based PDF.">>)
               ELSE Goto(p, "gemini")
       \/ /\ UNCHANGED extracted
          /\ Return(p, <<"An unexpected error occurred: ", "PDFSyntaxError">>)

\* lines 227-229 and summarize_with_gemini, lines 48-77.
Summarize(p) ==
    /\ pc[p] = "gemini"
    /\ geminiCalls' = [geminiCalls EXCEPT ![p] = @ + 1]
    /\ UNCHANGED <<tokenFile, lastWriter, driveFiles, endpoint, arg>>
    /\ UNCHANGED authVars
    /\ UNCHANGED <<sentFilter, listed, metaMime, chunkCalls, extracted, extractCalls>>
    /\ \/ \E chunks \in Summaries : Return(p, Join(chunks))
       \/ Return(p, <<"An unexpected error occurred: ", "ClientError">>)

(***************************************************************************)
(* The specifications.                                                     *)
(***************************************************************************)
\* connect_to_drive, one step of it.
Connect(p) ==
    \/ LoadToken(p)
    \/ Refresh(p)
    \/ Consent(p)
    \/ OpenToken(p)
    \/ WriteToken(p)
    \/ Build(p)

InitLocals ==
    /\ lastWriter = 0
    /\ pc = [p \in Procs |-> "idle"]
    /\ endpoint = [p \in Procs |-> "none"]
    /\ arg = [p \in Procs |-> NoArg]
    /\ creds = [p \in Procs |-> NONE]
    /\ service = [p \in Procs |-> "unset"]
    /\ loaded = [p \in Procs |-> "unread"]
    /\ loadedInfo = [p \in Procs |-> NONE]
    /\ refreshCalls = [p \in Procs |-> 0]
    /\ refreshFailed = [p \in Procs |-> FALSE]
    /\ consentCalls = [p \in Procs |-> 0]
    /\ wrote = [p \in Procs |-> <<>>]
    /\ overlapped = [p \in Procs |-> FALSE]
    /\ sentFilter = [p \in Procs |-> <<>>]
    /\ listed = [p \in Procs |-> [ok |-> FALSE, items |-> <<>>]]
    /\ metaMime = [p \in Procs |-> "unset"]
    /\ chunkCalls = [p \in Procs |-> 0]
    /\ extracted = [p \in Procs |-> [ok |-> FALSE, text |-> <<>>]]
    /\ extractCalls = [p \in Procs |-> 0]
    /\ geminiCalls = [p \in Procs |-> 0]
    /\ outcome = [p \in Procs |-> [kind |-> "none", val |-> <<>>]]

\* The account of the spec's end-to-end example: two files and a folder.
ExampleFiles ==
    <<FileRecord(1, PDF_MIME), FileRecord(2, FOLDER_MIME), FileRecord(3, TEXT_MIME)>>

\* Every account of at most MaxFiles files.
AllFileLists ==
    UNION {{[i \in 1..n |-> FileRecord(i, ms[i])] : ms \in [1..n -> MimeTypes]} :
           n \in 0..MaxFiles}

\* Concurrent invocations of list_files on one token file.
Init ==
    /\ tokenFile \in InitTokenFiles({SCOPES})
    /\ driveFiles = ExampleFiles
    /\ InitLocals

Next == \E p \in Procs : Invoke(p, ConcurrentInputs) \/ Connect(p) \/ ListFiles(p)

Spec == Init /\ [][Next]_vars

\* One invocation of list_files, over every account and max_results.
InitList ==
    /\ tokenFile \in InitTokenFiles({SCOPES, OtherScopes})
    /\ driveFiles \in AllFileLists
    /\ InitLocals

NextList == Invoke(1, InputsOf("list_files")) \/ Connect(1) \/ ListFiles(1)

SpecList == InitList /\ [][NextList]_vars

\* One invocation of search_files, over every query and max_results.
InitSearch ==
    /\ tokenFile \in InitTokenFiles({SCOPES, OtherScopes})
    /\ driveFiles = ExampleFiles
    /\ InitLocals

NextSearch == Invoke(1, InputsOf("search_files")) \/ Connect(1) \/ SearchFiles(1)

SpecSearch == InitSearch /\ [][NextSearch]_vars

\* One invocation of summarize_pdf, over every file id and extracted text.
NextPdf ==
    \/ Invoke(1, InputsOf("summarize_pdf"))
    \/ Connect(1)
    \/ PdfMetadata(1)
    \/ NextChunk(1)
    \/ ExtractText(1, InputsOf("summarize_pdf"))
    \/ Summarize(1)

SpecPdf == InitSearch /\ [][NextPdf]_vars


(***************************************************************************)
(* Properties.                                                             *)
(***************************************************************************)
Connected == {"body", "download", "extract", "gemini"}

StoredFound(p) == loaded[p] = "stored"

\* C1: no exception escapes an endpoint: every invocation that ends, ends by
\* returning a string, whichever step failed.
C1_NoExceptionEscapes == \A p \in Procs : outcome[p].kind # "raise"

\* C2: when the refresh of an expired credential fails, the invocation goes
\* on to the consent flow instead of ending with the failure.
C2_RefreshFailureReauthenticates ==
    \A p \in Procs :
        refreshFailed[p] /\ pc[p] = "done" =>
            consentCalls[p] = 1 /\ outcome[p].kind = "return"

\* C3: a token file that cannot be parsed, or that records a scope set not
\* containing the required scope, is treated as absent: the invocation runs
\* the consent flow, and builds no client from the stored credential.
InsufficientStored(p) ==
    \/ loaded[p] = "unparsable"
    \/ StoredFound(p) /\ ~(SCOPES \subseteq loadedInfo[p].scopes)
C3_BadTokenFileTreatedAsAbsent ==
    \A p \in Procs :
        InsufficientStored(p) /\ pc[p] \in Connected \cup {"build", "done"} =>
            consentCalls[p] = 1

\* C4: an invocation that finds an expired credential with a refresh token,
\* and whose refresh succeeds, calls refresh exactly once, never runs the
\* consent flow, and has written the refreshed credential to the token file
\* by the time it builds the client.
ExpiredRefreshable(p) ==
    StoredFound(p) /\ loadedInfo[p].expired /\ loadedInfo[p].rt
AfterRefresh(p) ==
    \/ pc[p] \in Connected \cup {"open", "write", "build"}
    \/ pc[p] = "done" /\ ~refreshFailed[p]
C4_RefreshOnceAndPersistBeforeBuild ==
    \A p \in Procs :
        ExpiredRefreshable(p) =>
            /\ consentCalls[p] = 0
            /\ refreshCalls[p] <= 1
            /\ AfterRefresh(p) =>
                 /\ refreshCalls[p] = 1
                 /\ creds[p].tok = RefreshedTok(p)
                 /\ ~creds[p].expired
            /\ (pc[p] \in Connected \cup {"build"} \/ service[p] # "unset") =>
                 wrote[p] = ToJson(creds[p])
C4_Witness ==
    \E p \in Procs :
        /\ ExpiredRefreshable(p)
        /\ service[p] = "client"
        /\ refreshCalls[p] = 1
        /\ wrote[p] = ToJson(creds[p])

\* C5: an invocation that finds a stored credential with a token, not
\* expired and with sufficient scope, never runs the consent flow, never
\* calls refresh and leaves the token file alone.
ValidStored(p) ==
    /\ StoredFound(p)
    /\ loadedInfo[p].tok # 0
    /\ ~loadedInfo[p].expired
    /\ SCOPES \subseteq loadedInfo[p].scopes
C5_ValidCredentialNoConsent ==
    \A p \in Procs :
        ValidStored(p) =>
            consentCalls[p] = 0 /\ refreshCalls[p] = 0 /\ pc[p] \notin {"consent", "refresh"}
C5_Witness ==
    \E p \in Procs : ValidStored(p) /\ service[p] = "client" /\ pc[p] = "done"

\* C6: summarize_pdf on a file whose MIME type is not application/pdf never
\* asks for a chunk of the download, never extracts text and never
\* summarizes; once the metadata request has answered it returns exactly
\* the fixed message.
NonPdfArg(p) ==
    /\ endpoint[p] = "summarize_pdf"
    /\ arg[p].file_id \in 1..Len(driveFiles)
    /\ driveFiles[arg[p].file_id].mimeType # PDF_MIME
C6_NonPdfRejectedWithoutDownload ==
    \A p \in Procs :
        NonPdfArg(p) =>
            /\ chunkCalls[p] = 0 /\ extractCalls[p] = 0 /\ geminiCalls[p] = 0
            /\ pc[p] \notin {"download", "extract", "gemini"}
            /\ metaMime[p] # "unset" =>
                 outcome[p] = [kind |-> "return",
                               val |-> <<"Error: This tool only works with PDF files.">>]
C6_Witness ==
    \E p \in Procs : NonPdfArg(p) /\ metaMime[p] = TEXT_MIME /\ pc[p] = "done"

\* C7: when the extracted text holds nothing but whitespace, summarize_pdf
\* returns exactly the fixed message and never calls summarize_with_gemini;
\* and summarize_with_gemini is reached only after an extraction that holds
\* a character that is not whitespace.
OnlyWhitespace(t) == \A i \in 1..Len(t) : t[i] \in Whitespace
C7_EmptyExtractionNotSummarized ==
    \A p \in Procs :
        /\ extracted[p].ok /\ OnlyWhitespace(extracted[p].text) =>
             /\ geminiCalls[p] = 0
             /\ outcome[p] =
                  [kind |-> "return",
                   val |-> <<"Could not extract any text from the PDF. It might be an image-based PDF.">>]
        /\ (pc[p] = "gemini" \/ geminiCalls[p] > 0) =>
             extracted[p].ok /\ ~OnlyWhitespace(extracted[p].text)
C7_Witness ==
    \E p \in Procs :
        /\ extracted[p].ok
        /\ Len(extracted[p].text) > 0
        /\ OnlyWhitespace(extracted[p].text)
        /\ pc[p] = "done"

\* The lines of a string, each without the newline that ends it.
RECURSIVE SplitLines(_, _)
SplitLines(s, cur) ==
    IF s = <<>> THEN (IF cur = <<>> THEN <<>> ELSE <<cur>>)
    ELSE IF Head(s) = NL THEN <<cur>> \o SplitLines(Tail(s), <<>>)
    ELSE SplitLines(Tail(s), Append(cur, Head(s)))

\* The table of the first n files of the account: a header line and one
\* line per file.
IsTableOf(out, n) ==
    LET lines == SplitLines(out, <<>>) IN
    /\ Len(lines) = n + 1
    /\ lines[1] = <<"ID", TAB, "Name", TAB, "Type">>
    /\ \A i \in 1..n :
         \/ /\ driveFiles[i].mimeType = FOLDER_MIME
            /\ lines[i + 1] = <<driveFiles[i].id, TAB, driveFiles[i].name, TAB, "Folder">>
         \/ /\ driveFiles[i].mimeType # FOLDER_MIME
            /\ lines[i + 1] = <<driveFiles[i].id, TAB, driveFiles[i].name, TAB, "File">>

ListAnswered(p) == endpoint[p] = "list_files" /\ listed[p].ok

\* C8 as claimed: list_files returns "No files found." when the account
\* holds no file, and otherwise the header and min(N, available) rows.
C8_AsClaimed ==
    \A p \in Procs :
        ListAnswered(p) =>
            /\ outcome[p].kind = "return"
            /\ IF Len(driveFiles) = 0
               THEN outcome[p].val = <<"No files found.">>
               ELSE IsTableOf(outcome[p].val, Min(arg[p].max_results, Len(driveFiles)))

\* C8, amended: for max_results = N >= 0, list_files returns "No files
\* found." when min(N, available) = 0 (no file in the account, or N = 0),
\* and otherwise the header and exactly min(N, available) rows, one per file
\* in the order returned, labelled Folder for the folder MIME type and File
\* for every other.
C8_ListTable ==
    \A p \in Procs :
        ListAnswered(p) =>
            /\ outcome[p].kind = "return"
            /\ IF Min(arg[p].max_results, Len(driveFiles)) = 0
               THEN outcome[p].val = <<"No files found.">>
               ELSE IsTableOf(outcome[p].val, Min(arg[p].max_results, Len(driveFiles)))
C8_Witness ==
    \E p \in Procs :
        /\ ListAnswered(p)
        /\ arg[p].max_results = 2
        /\ Len(driveFiles) = 3
        /\ driveFiles[2].mimeType = FOLDER_MIME
        /\ driveFiles[1].mimeType # FOLDER_MIME
        /\ Len(SplitLines(outcome[p].val, <<>>)) = 3

\* C9: the filter search_files sends reads, for every query, as
\* (name contains 'q' or fullText contains 'q') and trashed = false with
\* both literals decoding to the query: no character of the query ends a
\* literal early.
C9_FilterWellFormed ==
    \A p \in Procs :
        sentFilter[p] # <<>> => FilterShape(sentFilter[p], arg[p].query)

IsPrefix(a, b) == Len(a) <= Len(b) /\ SubSeq(b, 1, Len(a)) = a

AllDone == \A p \in Procs : pc[p] = "done"

====
